---- MODULE Spec2Model ----
(***************************************************************************)
(* The file gateway of src/controllers/files.rs: three axum handlers       *)
(* (upload_file, get_file, get_all_files) in front of one S3 bucket, and   *)
(* the storage configuration memoized in the OnceLock S3_CONFIG.           *)
(*                                                                         *)
(* get_file and get_all_files make one store call each and are one step.   *)
(* upload_file awaits the multipart stream and the store once per field,   *)
(* so it is one step per field, and the other two handlers run between any *)
(* two of its steps.  One upload_file task is in flight at a time.         *)
(*                                                                         *)
(* Option<T> is a sequence of length <= 1: None is <<>>, Some(x) is <<x>>. *)
(* Strings that the code inspects (file names, object paths) are sequences *)
(* of one-character strings; byte payloads are sequences of bytes.         *)
(***************************************************************************)
EXTENDS Naturals, Sequences, FiniteSets

VARIABLES
    s3Config,   \* S3_CONFIG: the OnceLock, None until the first get_or_init
    store,      \* the bucket: object path -> bytes
    up,         \* the upload_file task in flight, or the last one finished; its
                \* sent and puts are history: the file names of the fields
                \* received and the puts the store accepted, in order
    reply,      \* the last get_file or get_all_files request and its response
    firstCtx,   \* history: the settings of the call that initialised S3_CONFIG
    written,    \* history: object path -> bytes of the latest successful put
    quiet       \* history: no upload_file step has run since reply was sent

vars == <<s3Config, store, up, reply, firstCtx, written, quiet>>

None == <<>>
Some(x) == <<x>>

----------------------------------------------------------------------------
(* Bounds and input domains *)

\* The most fields one multipart request carries.
MaxFields == 2

\* Field bodies: the empty body and two different bodies of one length.
Payloads == {<<>>, <<0>>, <<1>>}

\* File names as clients send them.  The characters are ones PathPart leaves
\* unencoded, and every name has a non-empty segment (S3 keys are non-empty).
FileNames == {<<"a">>, <<"/", "a">>, <<"d", "/", "a">>}

----------------------------------------------------------------------------
(* S3Config and its resolution *)

S3ConfigFields == {"endpoint", "bucket", "region", "access_key", "secret_key"}

\* The fields of S3Config in declaration order.
FieldOrder == <<"endpoint", "bucket", "region", "access_key", "secret_key">>

DefaultS3Config ==
    [endpoint |-> "http://minio:9000", bucket |-> "files", region |-> "us-east-1",
     access_key |-> "minioadmin", secret_key |-> "minioadmin"]

JsonString(s) == [type |-> "string", value |-> s]
JsonNumber == [type |-> "number", value |-> "7"]

\* The settings of a full, decodable blob.
CustomMembers ==
    [endpoint |-> JsonString("http://s3:9000"), bucket |-> JsonString("docs"),
     region |-> JsonString("eu-west-1"), access_key |-> JsonString("key"),
     secret_key |-> JsonString("secret")]

JsonObject(members) == [type |-> "object", members |-> members]
JsonArray(items) == [type |-> "array", items |-> items]

Without(f) == [g \in S3ConfigFields \ {f} |-> CustomMembers[g]]

\* The full object with a member S3Config does not have.
WithExtra ==
    [g \in S3ConfigFields \cup {"prefix"} |->
        IF g = "prefix" THEN JsonString("tmp") ELSE CustomMembers[g]]

\* The five values as a JSON array, in declaration order.
CustomItems == [i \in DOMAIN FieldOrder |-> CustomMembers[FieldOrder[i]]]

\* ctx.config.settings: Option<serde_json::Value>.  Absent; a scalar; the full
\* object, with an extra member, less one member, with one member of the
\* wrong JSON type; an array of the five values, and of the first four.
Settings ==
    {None, Some(JsonString("files")),
     Some(JsonObject(CustomMembers)), Some(JsonObject(WithExtra)),
     Some(JsonObject([CustomMembers EXCEPT !["bucket"] = JsonNumber])),
     Some(JsonArray(CustomItems)), Some(JsonArray(SubSeq(CustomItems, 1, 4)))}
    \cup {Some(JsonObject(Without(f))) : f \in S3ConfigFields}

\* The settings of the one AppContext that every request of Spec carries.
AppSettings == Some(JsonObject(CustomMembers))

\* A decoder that fills each missing or ill-typed member with its default.
FromValueLenient(value) ==
    IF value.type = "object"
    THEN Some([f \in S3ConfigFields |->
                 IF f \in DOMAIN value.members /\ value.members[f].type = "string"
                 THEN value.members[f].value ELSE DefaultS3Config[f]])
    ELSE None

\* serde_json::from_value::<S3Config>(value).ok().  The derived Deserialize
\* reads an object by member name: it needs every field of the struct, each a
\* JSON string, and ignores other members.  It reads an array by position: it
\* needs exactly one string per field, in declaration order.  Nothing else
\* decodes.
FromValue(value) ==
    IF value.type = "object"
    THEN IF \A f \in S3ConfigFields :
                /\ f \in DOMAIN value.members
                /\ value.members[f].type = "string"
         THEN Some([f \in S3ConfigFields |-> value.members[f].value])
         ELSE None
    ELSE IF value.type = "array"
    THEN IF /\ Len(value.items) = Len(FieldOrder)
            /\ \A i \in DOMAIN value.items : value.items[i].type = "string"
         THEN Some([f \in S3ConfigFields |->
                      value.items[CHOOSE i \in DOMAIN FieldOrder : FieldOrder[i] = f].value])
         ELSE None
    ELSE None

\* The initialiser closure of get_or_init.
ResolveConfig(settings) ==
    LET decoded == IF settings = None THEN None ELSE FromValue(settings[1])
    IN  IF decoded = None THEN DefaultS3Config ELSE decoded[1]

\* A cell that runs the initialiser on every call.
GetOrInitAlways(cell, settings) == Some(ResolveConfig(settings))

\* OnceLock::get_or_init: the cell after the call.  Only one initialiser ever
\* runs, so the call is one step.
GetOrInit(cell, settings) ==
    IF cell = None THEN Some(ResolveConfig(settings)) ELSE cell

\* AmazonS3Builder::build(): every builder input is supplied by S3Config.
CreateS3Store(config) == [ok |-> TRUE, bucket |-> config.bucket]

----------------------------------------------------------------------------
(* Object paths *)

RECURSIVE Split(_)
\* str::split('/'): the segments between delimiters, empty ones included.
Split(s) ==
    IF s = <<>> THEN << <<>> >>
    ELSE LET rest == Split(Tail(s))
         IN  IF Head(s) = "/"
             THEN << <<>> >> \o rest
             ELSE << <<Head(s)>> \o Head(rest) >> \o Tail(rest)

RECURSIVE Join(_)
Join(parts) ==
    IF parts = <<>> THEN <<>>
    ELSE IF Len(parts) = 1 THEN parts[1]
    ELSE parts[1] \o <<"/">> \o Join(Tail(parts))

\* ObjectPath::from(String): split on '/', drop the empty parts, join.
ObjectPathFrom(name) ==
    Join(SelectSeq(Split(name), LAMBDA part : part # <<>>))

\* Path::filename(): the last segment, None for the root path.
Filename(path) ==
    IF path = <<>> THEN None
    ELSE LET parts == Split(path) IN Some(parts[Len(parts)])

\* meta.location.filename().unwrap_or("unknown")
FileInfoName(path) ==
    IF Filename(path) = None THEN <<"u", "n", "k", "n", "o", "w", "n">>
    ELSE Filename(path)[1]

----------------------------------------------------------------------------
(* The object store client *)

\* A put that creates objects and never replaces one.
StorePutKeepFirst(s, path, bytes, ok) ==
    IF ok /\ path \notin DOMAIN s
    THEN [p \in DOMAIN s \cup {path} |-> IF p = path THEN bytes ELSE s[p]]
    ELSE s

\* store.put(path, bytes): the object is created or replaced when the call
\* succeeds and the bucket is untouched when it fails.
StorePut(s, path, bytes, ok) ==
    IF ok THEN [p \in DOMAIN s \cup {path} |-> IF p = path THEN bytes ELSE s[p]]
    ELSE s

\* store.get(path) then result.bytes().
StoreGet(s, path, ok) ==
    IF ~ok THEN [ok |-> FALSE, error |-> "Generic S3 error"]
    ELSE IF path \notin DOMAIN s THEN [ok |-> FALSE, error |-> "Object not found"]
    ELSE [ok |-> TRUE, bytes |-> s[path]]

\* The orders in which store.list(None) may yield the objects.
Orders(S) ==
    {o \in [1..Cardinality(S) -> S] : \A i, j \in DOMAIN o : o[i] = o[j] => i = j}

\* One ObjectMeta of the listing.
ObjectMeta(s, path) == [location |-> path, size |-> Len(s[path])]

\* store.list(None), drained: one ObjectMeta per object, in the order given.
StoreList(s, order) == [i \in DOMAIN order |-> ObjectMeta(s, order[i])]

----------------------------------------------------------------------------
(* Responses *)

\* loco_rs renders Error::Message as 500 Internal Server Error.
ErrorMessage(msg) == [status |-> 500, error |-> msg]

\* Json(json!({"uploaded": uploaded_files})).into_response()
UploadedResponse(names) == [status |-> 200, uploaded |-> names]

\* Response::builder().status(StatusCode::OK).body(bytes)
BodyResponse(bytes) == [status |-> 200, body |-> bytes]

\* A FileInfo named by the whole object path.
FileInfoFullPath(meta) == [name |-> meta.location, size |-> meta.size]

\* FileInfo { name, size }
FileInfo(meta) == [name |-> FileInfoName(meta.location), size |-> meta.size]

\* Json(files).into_response()
FilesResponse(files) == [status |-> 200, files |-> files]

----------------------------------------------------------------------------
(* State *)

\* A multipart field as the handler sees it: file_name() is None or the name,
\* bytes() is None when reading the body fails.
Fields(names, bodies) ==
    {[file_name |-> None, bytes |-> None]}
    \cup {[file_name |-> Some(n), bytes |-> b] :
             n \in names, b \in {None} \cup {Some(p) : p \in bodies}}

Idle == [pc |-> "idle"]

Init ==
    /\ s3Config = None
    /\ store = <<>>
    /\ up = Idle
    /\ reply = None
    /\ firstCtx = None
    /\ written = <<>>
    /\ quiet = FALSE

\* get_s3_config(&ctx), with the history of who initialised the cell.
GetS3Config(settings) ==
    /\ s3Config' = GetOrInit(s3Config, settings)
    /\ firstCtx' = IF s3Config = None THEN Some(settings) ELSE firstCtx

\* History: path now holds bytes.
Record(w, path, bytes) ==
    [p \in DOMAIN w \cup {path} |-> IF p = path THEN bytes ELSE w[p]]

----------------------------------------------------------------------------
(* upload_file *)

\* Lines 80-83: resolve the config, build the store, start with an empty list.
UploadStart(settings) ==
    /\ up.pc # "fields"
    /\ GetS3Config(settings)
    /\ LET config == s3Config'[1]
           built == CreateS3Store(config)
       IN  up' = IF built.ok
                 THEN [pc |-> "fields", config |-> config, uploaded_files |-> <<>>,
                       sent |-> <<>>, puts |-> <<>>]
                 ELSE [pc |-> "done", config |-> config, sent |-> <<>>,
                       puts |-> <<>>, fail |-> "build",
                       resp |-> ErrorMessage("builder error")]
    /\ quiet' = FALSE
    /\ UNCHANGED <<store, reply, written>>

\* The task ends with an error: the `?` of lines 88, 93, 98 and 104.
Failed(t, sent, why, msg) ==
    [pc |-> "done", config |-> t.config, sent |-> sent, puts |-> t.puts,
     fail |-> why, resp |-> ErrorMessage(msg)]

\* A push at the front of the list.
PushFront(uploaded_files, file_name) == <<file_name>> \o uploaded_files

\* Line 106: uploaded_files.push(file_name)
Push(uploaded_files, file_name) == Append(uploaded_files, file_name)

\* A loop turn that goes on when the store rejects the put.
FieldOutcomeIgnoringPut(field, putOk) ==
    IF field.file_name = None THEN "no_name"
    ELSE IF field.bytes = None THEN "read"
    ELSE "ok"

\* Lines 90-104: where one turn of the loop leaves it, by the first `?` that
\* returns.
FieldOutcome(field, putOk) ==
    IF field.file_name = None THEN "no_name"
    ELSE IF field.bytes = None THEN "read"
    ELSE IF ~putOk THEN "put"
    ELSE "ok"

\* Line 100: the object path of a field.
UploadPath(file_name) == ObjectPathFrom(file_name)

\* Lines 85-107, one turn of the loop: next_field() yields a field.  putOk says
\* whether the store accepts the put.
UploadField(field, putOk) ==
    /\ up.pc = "fields"
    /\ Len(up.sent) < MaxFields
    /\ LET sent == Append(up.sent, field.file_name)
           outcome == FieldOutcome(field, putOk)
       IN  IF outcome = "no_name"
           THEN /\ up' = Failed(up, sent, outcome, "No file name provided")
                /\ UNCHANGED <<store, written>>
           ELSE IF outcome = "read"
           THEN /\ up' = Failed(up, sent, outcome, "multipart error")
                /\ UNCHANGED <<store, written>>
           ELSE LET file_name == field.file_name[1]
                    bytes == field.bytes[1]
                    object_path == UploadPath(file_name)
                    put == [path |-> object_path, bytes |-> bytes]
                IN  /\ store' = StorePut(store, object_path, bytes, putOk)
                    /\ written' = IF putOk THEN Record(written, object_path, bytes)
                                  ELSE written
                    /\ IF outcome = "put"
                       THEN up' = Failed(up, sent, outcome, "Generic S3 error")
                       ELSE up' = [up EXCEPT
                                !.uploaded_files = Push(@, file_name),
                                !.sent = sent,
                                !.puts = IF putOk THEN Append(@, put) ELSE @]
    /\ quiet' = FALSE
    /\ UNCHANGED <<s3Config, reply, firstCtx>>

\* Lines 85-88: next_field() fails.
UploadStreamError ==
    /\ up.pc = "fields"
    /\ up' = Failed(up, up.sent, "stream", "multipart error")
    /\ quiet' = FALSE
    /\ UNCHANGED <<s3Config, store, reply, firstCtx, written>>

\* Lines 85, 109-112: next_field() yields None; respond with the list.
UploadFinish ==
    /\ up.pc = "fields"
    /\ up' = [pc |-> "done", config |-> up.config, sent |-> up.sent,
              puts |-> up.puts, fail |-> "none",
              resp |-> UploadedResponse(up.uploaded_files)]
    /\ quiet' = FALSE
    /\ UNCHANGED <<s3Config, store, reply, firstCtx, written>>

----------------------------------------------------------------------------
(* get_file *)

\* An object path taken from the file name as it is.
DownloadPathRaw(file_name) == file_name

\* Line 123: the object path of the requested name.
DownloadPath(file_name) == ObjectPathFrom(file_name)

\* A get_file that creates the object it does not find.
GetFileCreating(settings, params, getOk) ==
    /\ GetS3Config(settings)
    /\ LET object_path == DownloadPath(params["file_name"])
           result == StoreGet(store, object_path, getOk)
       IN  /\ reply' = Some([kind |-> "download", settings |-> settings,
                             config |-> s3Config'[1], params |-> params,
                             served |-> getOk,
                             resp |-> IF result.ok THEN BodyResponse(result.bytes)
                                      ELSE ErrorMessage(result.error)])
           /\ store' = IF getOk /\ ~result.ok
                       THEN StorePut(store, object_path, <<>>, TRUE) ELSE store
    /\ quiet' = TRUE
    /\ UNCHANGED <<up, written>>

\* The whole handler.  params is the path-parameter map; getOk says whether
\* the store answers the get.
GetFile(settings, params, getOk) ==
    /\ GetS3Config(settings)
    /\ LET config == s3Config'[1]
           built == CreateS3Store(config)
           done(resp) == Some([kind |-> "download", settings |-> settings,
                               config |-> config, params |-> params,
                               served |-> getOk, resp |-> resp])
       IN  reply' =
              IF ~built.ok THEN done(ErrorMessage("builder error"))
              ELSE IF "file_name" \notin DOMAIN params
              THEN done(ErrorMessage("File name required"))
              ELSE LET object_path == DownloadPath(params["file_name"])
                       result == StoreGet(store, object_path, getOk)
                   IN  IF result.ok THEN done(BodyResponse(result.bytes))
                       ELSE done(ErrorMessage(result.error))
    /\ quiet' = TRUE
    /\ UNCHANGED <<store, up, written>>

----------------------------------------------------------------------------
(* get_all_files *)

\* The whole handler.  order is the order the listing stream yields the
\* objects in; listOk says whether it yields them all without an error.
GetAllFiles(settings, order, listOk) ==
    /\ GetS3Config(settings)
    /\ LET config == s3Config'[1]
           built == CreateS3Store(config)
           metas == StoreList(store, order)
           files == [i \in DOMAIN metas |-> FileInfo(metas[i])]
           done(resp) == Some([kind |-> "list", settings |-> settings,
                               config |-> config, served |-> listOk, resp |-> resp])
       IN  reply' =
              IF ~built.ok THEN done(ErrorMessage("builder error"))
              ELSE IF ~listOk THEN done(ErrorMessage("Generic S3 error"))
              ELSE done(FilesResponse(files))
    /\ quiet' = TRUE
    /\ UNCHANGED <<store, up, written>>

----------------------------------------------------------------------------
(* Specifications *)

\* The requests whose contexts carry one of `settings`, whose file names are
\* among `names` and whose field bodies are among `bodies`.
Step(settings, names, bodies) ==
    \/ \E st \in settings : UploadStart(st)
    \/ \E field \in Fields(names, bodies), putOk \in BOOLEAN : UploadField(field, putOk)
    \/ UploadStreamError
    \/ UploadFinish
    \/ \E st \in settings, name \in names, getOk \in BOOLEAN :
            GetFile(st, [file_name |-> name], getOk)
    \/ \E st \in settings, order \in Orders(DOMAIN store), listOk \in BOOLEAN :
            GetAllFiles(st, order, listOk)

\* The service as deployed: one AppContext shared by every request.
Next == Step({AppSettings}, FileNames, Payloads)

Spec == Init /\ [][Next]_vars

\* Config resolution: every request may carry its own settings blob.
NextConfig == Step(Settings, {<<"a">>}, {<<0>>})

SpecConfig == Init /\ [][NextConfig]_vars

----------------------------------------------------------------------------
(* Properties *)

\* The object a file name denotes.
Key(name) == ObjectPathFrom(name)

\* The last get_file request, answered by the store, with no upload step since.
Downloaded ==
    /\ reply # None
    /\ quiet
    /\ reply[1].kind = "download"
    /\ reply[1].served

\* The last get_all_files request, answered by the store, with no upload step since.
Listed ==
    /\ reply # None
    /\ quiet
    /\ reply[1].kind = "list"
    /\ reply[1].served

\* The last upload_file request has ended with the success response.
UploadSucceeded == up.pc = "done" /\ up.fail = "none"

\* The puts of the last upload request that went to the object of `name`.
PutsTo(name) == {i \in DOMAIN up.puts : up.puts[i].path = Key(name)}

Last(S) == CHOOSE i \in S : \A j \in S : j <= i

\* C1, as amended: when an upload request has succeeded and no upload step has
\* run since, a download of n that the store answers has status 200 and its
\* body is the payload of the last field of that request put at n's object.
C1_RoundTripLastField ==
    (Downloaded /\ UploadSucceeded /\ PutsTo(reply[1].params["file_name"]) # {})
    => LET n == reply[1].params["file_name"]
       IN  /\ reply[1].resp.status = 200
           /\ reply[1].resp.body = up.puts[Last(PutsTo(n))].bytes

\* C1 reached: the request put two different payloads at the object and the
\* download returned the second.
C1_Witness ==
    /\ Downloaded
    /\ UploadSucceeded
    /\ LET n == reply[1].params["file_name"]
       IN  /\ Cardinality(PutsTo(n)) = 2
           /\ \E i, j \in PutsTo(n) : up.puts[i].bytes # up.puts[j].bytes
           /\ reply[1].resp.status = 200

\* C1, as stated: when an upload request containing a field (n, b) has
\* succeeded and no other upload has written n since, the next download of n
\* has status 200 and body b.
C1_RoundTripAnyField ==
    (Downloaded /\ UploadSucceeded)
    => LET n == reply[1].params["file_name"]
       IN  \A i \in DOMAIN up.sent :
              up.sent[i] = Some(n)
              => /\ reply[1].resp.status = 200
                 /\ reply[1].resp.body = up.puts[i].bytes

C3_UploadedList ==
    UploadSucceeded
    => /\ \A i \in DOMAIN up.sent : up.sent[i] # None
       /\ Len(up.puts) = Len(up.sent)
       /\ up.resp.status = 200
       /\ Len(up.resp.uploaded) = Len(up.sent)
       /\ \A i \in DOMAIN up.sent : up.resp.uploaded[i] = up.sent[i][1]
       /\ \A i \in DOMAIN up.resp.uploaded : Key(up.resp.uploaded[i]) \in DOMAIN store

\* C3 reached: two fields with the same file name, both listed.
C3_Witness ==
    /\ UploadSucceeded
    /\ Len(up.sent) = 2
    /\ up.sent[1] = up.sent[2]
    /\ Len(up.resp.uploaded) = 2

\* C4, as stated: an upload request with a field that has no file name ends in
\* a client-error (4xx) response.
C4_NoNameIsClientError ==
    (up.pc = "done" /\ \E i \in DOMAIN up.sent : up.sent[i] = None)
    => up.resp.status \in 400..499

\* C5: an upload request that fails at field k (no file name, body read error
\* or rejected put) has put fields 1..k-1, in order, and nothing else; these
\* objects are in the bucket with the payloads last put, the bucket holds no
\* write that the store did not accept, and the response is an error without
\* an `uploaded` list.
C5_StopAtFirstFailure ==
    (up.pc = "done" /\ up.fail \in {"no_name", "read", "put"})
    => LET k == Len(up.sent)
       IN  /\ k >= 1
           /\ \A i \in 1..(k - 1) : up.sent[i] # None
           /\ Len(up.puts) = k - 1
           /\ \A i \in 1..(k - 1) :
                /\ up.puts[i].path = Key(up.sent[i][1])
                /\ up.puts[i].path \in DOMAIN store
           /\ store = written
           /\ up.resp.status # 200
           /\ "uploaded" \notin DOMAIN up.resp

\* C5 reached: the second field failed after the first was put.
C5_Witness ==
    /\ up.pc = "done"
    /\ up.fail \in {"no_name", "read", "put"}
    /\ Len(up.sent) = 2
    /\ Len(up.puts) = 1
    /\ up.puts[1].path \in DOMAIN store

\* C6, as stated: a download of a name whose object was never put ends in a
\* not-found (404) response.
C6_AbsentIsNotFound ==
    (Downloaded /\ Key(reply[1].params["file_name"]) \notin DOMAIN written)
    => reply[1].resp.status = 404

\* The file name of an object path: what follows its last '/'.
LastSegment(path) ==
    LET slashes == {i \in DOMAIN path : path[i] = "/"}
        from == IF slashes = {} THEN 1 ELSE Last(slashes) + 1
    IN  IF path = <<>> THEN <<"u", "n", "k", "n", "o", "w", "n">>
        ELSE SubSeq(path, from, Len(path))

\* C7: a listing that the store answers has status 200 and exactly one entry
\* per object ever put, each with the last segment of the object's path as its
\* name and the length of the payload last put there as its size.
C7_ListExact ==
    Listed
    => /\ reply[1].resp.status = 200
       /\ Len(reply[1].resp.files) = Cardinality(DOMAIN written)
       /\ \E o \in Orders(DOMAIN written) :
            \A i \in DOMAIN o :
                reply[1].resp.files[i] =
                    [name |-> LastSegment(o[i]), size |-> Len(written[o[i]])]

\* C7 reached: two objects with the same file name and different sizes, one of
\* them in a directory.
C7_Witness ==
    /\ Listed
    /\ Len(reply[1].resp.files) = 2
    /\ reply[1].resp.files[1].name = reply[1].resp.files[2].name
    /\ reply[1].resp.files[1].size # reply[1].resp.files[2].size

\* The config every request so far was given by get_s3_config.
ConfigsGiven ==
    (IF up.pc = "idle" THEN {} ELSE {up.config})
    \cup (IF reply = None THEN {} ELSE {reply[1].config})

\* C8: once S3_CONFIG is set it never changes, it is the config resolved from
\* the settings of the first caller, and every call of get_s3_config, whatever
\* settings it carried, was given that value.
C8_MemoizedOnce ==
    /\ [](s3Config # None =>
            /\ firstCtx # None
            /\ s3Config = Some(ResolveConfig(firstCtx[1]))
            /\ \A c \in ConfigsGiven : c = s3Config[1])
    /\ [][s3Config # None => s3Config' = s3Config]_vars

\* C8 reached: a request whose own settings resolve to another config was
\* given the memoized one.
C8_Witness ==
    /\ reply # None
    /\ s3Config # None
    /\ reply[1].settings # firstCtx[1]
    /\ ResolveConfig(reply[1].settings) # reply[1].config
    /\ reply[1].config = s3Config[1]

\* The blob is present and is an object with all five members, each a string.
SuppliesAllFive(settings) ==
    /\ settings # None
    /\ settings[1].type = "object"
    /\ \A f \in S3ConfigFields :
          f \in DOMAIN settings[1].members /\ settings[1].members[f].type = "string"

\* The blob is present and is an array of exactly five strings.
SuppliesFiveInOrder(settings) ==
    /\ settings # None
    /\ settings[1].type = "array"
    /\ Len(settings[1].items) = 5
    /\ \A i \in 1..5 : settings[1].items[i].type = "string"

\* The complete default set.
DocumentedDefaults ==
    [endpoint |-> "http://minio:9000", bucket |-> "files", region |-> "us-east-1",
     access_key |-> "minioadmin", secret_key |-> "minioadmin"]

\* C9, as stated: the resolved config is the five supplied values when the
\* blob is an object with all five string fields, and the complete default set
\* for every other blob; never a mix.
C9_ObjectOrDefaults ==
    s3Config # None
    => LET settings == firstCtx[1]
       IN  IF SuppliesAllFive(settings)
           THEN \A f \in S3ConfigFields :
                    s3Config[1][f] = settings[1].members[f].value
           ELSE s3Config[1] = DocumentedDefaults

\* C9, as amended: the resolved config is the five supplied values when the
\* blob is an object with all five string fields or an array of exactly five
\* strings (taken in the order endpoint, bucket, region, access_key,
\* secret_key), and the complete default set for every other blob; never a mix.
C9_AllOrNothing ==
    s3Config # None
    => LET settings == firstCtx[1]
       IN  IF SuppliesAllFive(settings)
           THEN \A f \in S3ConfigFields :
                    s3Config[1][f] = settings[1].members[f].value
           ELSE IF SuppliesFiveInOrder(settings)
           THEN /\ s3Config[1].endpoint = settings[1].items[1].value
                /\ s3Config[1].bucket = settings[1].items[2].value
                /\ s3Config[1].region = settings[1].items[3].value
                /\ s3Config[1].access_key = settings[1].items[4].value
                /\ s3Config[1].secret_key = settings[1].items[5].value
           ELSE s3Config[1] = DocumentedDefaults

\* C9 reached: a blob with four of the five members resolved to the defaults.
C9_Witness ==
    /\ s3Config # None
    /\ firstCtx = Some(Some(JsonObject(Without("region"))))
    /\ s3Config[1] = DocumentedDefaults

\* C10: a get_file or get_all_files step, whatever its outcome, leaves the
\* bucket as it was, and no step removes an object from the bucket.
C10_ReadOnly ==
    [][/\ quiet' => store' = store
       /\ \A p \in DOMAIN store : p \in DOMAIN store']_vars

\* C10 reached: a download failed on a bucket that holds an object.
C10_Witness ==
    /\ reply # None
    /\ quiet
    /\ reply[1].kind = "download"
    /\ reply[1].resp.status # 200
    /\ DOMAIN store # {}

====
